---- MODULE Spec2Model ----
(***************************************************************************)
(* Model of the Whitespace token toolchain of Nebula 2:                    *)
(*   - TokenVec (src/ws/token/token_vec.rs): a run of at most 29 tokens    *)
(*     packed in one u64, modelled bit for bit as it behaves in a debug    *)
(*     build (debug_assert! and arithmetic/shift overflow checks trap);    *)
(*   - the bit codec exercised by src/ws/tests.rs.                         *)
(***************************************************************************)
EXTENDS Integers, Sequences, FiniteSets, TLC

VARIABLES v, u, ts, words, outF, outB, op, n, pc

vars == <<v, u, ts, words, outF, outB, op, n, pc>>

(***************************************************************************)
(* Bounds of the model.                                                    *)
(***************************************************************************)
\* longest slice handed to append / append_front / concat
MaxSlice == 2
\* pop() calls already made on the run when it is first observed
MaxPops == 1
\* operations applied to the run after that
MaxOps == 1
\* calls made on an exhausted iterator
MaxNone == 2
\* longest token sequence handed to the bit codec
MaxPackLen == 5

(***************************************************************************)
(* u64 words: bit i of a word w is w[i], bit 0 the least significant.      *)
(***************************************************************************)
WordBits == 64

Word == [0..(WordBits - 1) -> {0, 1}]

Pow2(k) == 2 ^ k

\* the u64 whose value is x, for 0 <= x < 2^30
FromNat(x) == [i \in 0..(WordBits - 1) |-> IF i < 30 THEN (x \div Pow2(i)) % 2 ELSE 0]

\* w << k and w >> k for k < 64 (a debug build traps on k >= 64: see the callers)
Shl(w, k) == [i \in 0..(WordBits - 1) |-> IF i >= k THEN w[i - k] ELSE 0]

Shr(w, k) == [i \in 0..(WordBits - 1) |-> IF i + k < WordBits THEN w[i + k] ELSE 0]

BitAnd(a, b) == [i \in 0..(WordBits - 1) |-> a[i] * b[i]]

BitOr(a, b) == [i \in 0..(WordBits - 1) |-> IF a[i] + b[i] > 0 THEN 1 ELSE 0]

BitNot(a) == [i \in 0..(WordBits - 1) |-> 1 - a[i]]

\* (1 << k) - 1 for k < 64
LowMask(k) == [i \in 0..(WordBits - 1) |-> IF i < k THEN 1 ELSE 0]

(***************************************************************************)
(* Token and its representation (tok as u64, Token::from_repr_unchecked).  *)
(***************************************************************************)
Token == {"S", "T", "L"}

Repr(tok) == CASE tok = "S" -> 0 [] tok = "T" -> 1 [] tok = "L" -> 2

\* repr 3 is no Token: from_repr_unchecked on it is undefined behaviour
from_repr_unchecked(x) == CASE x = 0 -> "S" [] x = 1 -> "T" [] x = 2 -> "L" [] OTHER -> "UB"

(***************************************************************************)
(* TokenVec.  Every operation yields [w, trap, ret]: the word it leaves,   *)
(* whether it panicked, and its return value.                              *)
(***************************************************************************)
LEN_BITS == 6

LEN_MASK == FromNat(63)

None == "None"

Ok(w, ret) == [w |-> w, trap |-> FALSE, ret |-> ret]

Trap(w) == [w |-> w, trap |-> TRUE, ret |-> "trap"]

new == FromNat(0)

len(w) == w[0] + 2 * w[1] + 4 * w[2] + 8 * w[3] + 16 * w[4] + 32 * w[5]

capacity == 29

is_empty(w) == len(w) = 0

shift_for(i) == i * 2 + LEN_BITS

\* set_len without its debug_assert
set_len_unchecked(w, l) == Ok(BitOr(BitAnd(w, BitNot(LEN_MASK)), FromNat(l % 64)), None)

set_len(w, l) ==
    IF ~(l <= capacity) THEN Trap(w)
    ELSE Ok(BitOr(BitAnd(w, BitNot(LEN_MASK)), FromNat(l)), None)

\* get without its debug_assert on the index
get_unchecked(w, i) ==
    IF shift_for(i) >= WordBits THEN Trap(w)
    ELSE LET x == Shr(w, shift_for(i))
         IN  Ok(w, from_repr_unchecked(x[0] + 2 * x[1]))

get(w, i) ==
    IF ~(i < len(w)) THEN Trap(w)
    ELSE IF shift_for(i) >= WordBits THEN Trap(w)
    ELSE LET x == Shr(w, shift_for(i))
         IN  Ok(w, from_repr_unchecked(x[0] + 2 * x[1]))

\* set that ORs the new code in without clearing the slot first
set_noclear(w, i, tok) ==
    IF ~(i < len(w)) THEN Trap(w)
    ELSE IF shift_for(i) >= WordBits THEN Trap(w)
    ELSE Ok(BitOr(w, Shl(FromNat(Repr(tok)), shift_for(i))), None)

set(w, i, tok) ==
    IF ~(i < len(w)) THEN Trap(w)
    ELSE IF shift_for(i) >= WordBits THEN Trap(w)
    ELSE LET shift == shift_for(i)
         IN  Ok(BitOr(BitAnd(w, BitNot(Shl(FromNat(3), shift))),
                      Shl(FromNat(Repr(tok)), shift)), None)

push(w, tok) ==
    LET l == len(w)
        r == set_len(w, l + 1)
    IN  IF r.trap THEN r ELSE set(r.w, l, tok)

pop(w) ==
    IF len(w) = 0 THEN Trap(w)
    ELSE LET l == len(w) - 1
             g == get(w, l)
         IN  IF g.trap THEN g
             ELSE LET r == set_len(w, l)
                  IN  IF r.trap THEN r ELSE Ok(r.w, g.ret)

push_front(w, tok) ==
    IF ~(len(w) < capacity) THEN Trap(w)
    ELSE LET data == Shl(BitAnd(w, BitNot(LEN_MASK)), 2)
             l == len(w) + 1
         IN  Ok(BitOr(BitOr(data, Shl(FromNat(Repr(tok)), LEN_BITS)), FromNat(l)), None)

\* pop_front that forgets to shift the remaining codes down
pop_front_noshift(w) ==
    LET g == get(w, 0)
    IN  IF g.trap THEN g
        ELSE LET r == set_len(w, len(w) - 1)
             IN  IF r.trap THEN r ELSE Ok(r.w, g.ret)

pop_front(w) ==
    LET g == get(w, 0)
    IN  IF g.trap THEN g
        ELSE LET l == len(w)
                 r == set_len(Shr(w, 2), l - 1)
             IN  IF r.trap THEN r ELSE Ok(r.w, g.ret)

RECURSIVE bitsLoop(_, _, _)
bitsLoop(toks, i, acc) ==
    IF ~(i < Len(toks)) THEN Ok(acc, None)
    ELSE IF i * 2 >= WordBits THEN Trap(acc)
    ELSE bitsLoop(toks, i + 1, BitOr(acc, Shl(FromNat(Repr(toks[i + 1])), i * 2)))

bits(toks) == bitsLoop(toks, 0, FromNat(0))

extend(w, k) ==
    IF ~(k # 0 /\ len(w) + k <= capacity) THEN Trap(w)
    ELSE LET data == BitAnd(w, LowMask(shift_for(len(w))))
             l == len(w) + k
         IN  Ok(BitOr(data, FromNat(l)), None)

extend_front(w, k) ==
    IF ~(len(w) + k <= capacity) THEN Trap(w)
    ELSE IF shift_for(k) >= WordBits THEN Trap(w)
    ELSE LET data == Shl(BitAnd(w, BitNot(LEN_MASK)), shift_for(k))
             l == len(w) + k
         IN  Ok(BitOr(data, FromNat(l)), None)

concat(w, other) ==
    LET shift == shift_for(len(w))
        e == extend(w, len(other))
    IN  IF e.trap THEN e
        ELSE Ok(BitOr(e.w, Shl(BitAnd(other, BitNot(LEN_MASK)), shift - LEN_BITS)), None)

append(w, toks) ==
    LET shift == shift_for(len(w))
        e == extend(w, Len(toks))
    IN  IF e.trap THEN e
        ELSE LET b == bits(toks)
             IN  IF b.trap THEN Trap(e.w) ELSE Ok(BitOr(e.w, Shl(b.w, shift)), None)

append_front(w, toks) ==
    LET e == extend_front(w, Len(toks))
    IN  IF e.trap THEN e
        ELSE LET b == bits(toks)
             IN  IF b.trap THEN Trap(e.w) ELSE Ok(BitOr(e.w, Shl(b.w, LEN_BITS)), None)

\* the Token of one bit of a BitSlice: if *bit { Token::T } else { Token::S }
BitToken(bit) == IF bit = "1" THEN "T" ELSE "S"

RECURSIVE append_bits_from(_, _, _)
append_bits_from(w, bs, i) ==
    IF i > Len(bs) THEN Ok(w, None)
    ELSE LET r == push(w, BitToken(bs[i]))
         IN  IF r.trap THEN r ELSE append_bits_from(r.w, bs, i + 1)

append_bits(w, bs) == append_bits_from(w, bs, 1)

RECURSIVE append_bits_front_from(_, _, _)
append_bits_front_from(w, bs, i) ==
    IF i > Len(bs) THEN Ok(w, None)
    ELSE LET r == push_front(w, BitToken(bs[i]))
         IN  IF r.trap THEN r ELSE append_bits_front_from(r.w, bs, i + 1)

append_bits_front(w, bs) == append_bits_front_from(w, bs, 1)

\* From that forgets to shift the codes above the length field
From_unshifted(toks) ==
    LET b == bits(toks)
    IN  IF b.trap THEN Trap(new)
        ELSE Ok(BitOr(b.w, FromNat(Len(toks))), None)

From(toks) ==
    LET b == bits(toks)
    IN  IF b.trap THEN Trap(new)
        ELSE Ok(BitOr(Shl(b.w, LEN_BITS), FromNat(Len(toks))), None)

next(w) == IF ~is_empty(w) THEN pop_front(w) ELSE Ok(w, None)

next_back(w) == IF ~is_empty(w) THEN pop(w) ELSE Ok(w, None)

size_hint(w) == <<len(w), len(w)>>

eq(a, b) ==
    IF ~(len(a) < capacity) THEN Trap(a)
    ELSE IF shift_for(len(b)) >= WordBits THEN Trap(a)
    ELSE Ok(a, IF Shl(a, shift_for(len(a))) = Shl(b, shift_for(len(b)))
               THEN "true" ELSE "false")

(***************************************************************************)
(* Inputs.                                                                 *)
(***************************************************************************)
\* all token sequences of length lo..hi
Seqs(lo, hi) == UNION {[1..k -> Token] : k \in lo..hi}

\* the token patterns that are repeated to build the input slices
Seeds == {<<"S">>, <<"T">>, <<"L">>, <<"T", "L">>, <<"S", "T", "L">>}

\* the slice of length l that repeats seed
Pattern(seed, l) == [i \in 1..l |-> seed[((i - 1) % Len(seed)) + 1]]

\* the slices handed to append, append_front, and to From for concat and ==
Slices == {Pattern(seed, l) : seed \in Seeds, l \in 0..MaxSlice}

\* lengths of the slices a run is built from: short ones, and those around capacity
\* and around the 32 tokens whose codes fill a u64
FromLens == (0..3) \cup {13, 14} \cup ((capacity - 2)..(capacity + 4))

\* the front-to-back tokens of a run: what get(i) returns for each i < len()
Contents(w) == [i \in 1..len(w) |-> get(w, i - 1).ret]

RECURSIVE PopN(_, _)
PopN(r, k) == IF k = 0 \/ r.trap THEN r ELSE PopN(pop(r.w), k - 1)

\* the bit slices handed to append_bits and append_bits_front
BitSlices == UNION {[1..k -> {"0", "1"}] : k \in 0..MaxSlice}

\* other runs handed to concat and ==: built from a slice, some popped once
Others == {From(s).w : s \in Slices} \cup {pop(From(s).w).w : s \in Slices \ {<<>>}}

\* indices handed to get and set: both ends, the first index past the end
Indices(w) == {0, len(w), IF len(w) > 0 THEN len(w) - 1 ELSE 0}

(***************************************************************************)
(* Spec: a run is built from a slice, possibly popped, and then operated   *)
(* on through the public API.  op records the last call.                   *)
(***************************************************************************)
Call(name, tok, idx, sl, other, pre, r) ==
    [name |-> name, tok |-> tok, idx |-> idx, sl |-> sl, other |-> other,
     pre |-> pre, ret |-> r.ret, trap |-> r.trap]

Init ==
    \E seed \in Seeds, l \in FromLens, k \in 0..MaxPops :
        LET f == From(Pattern(seed, l))
            r == PopN(f, k)
        IN  /\ k = 0 \/ ~r.trap
            /\ ts = Pattern(seed, l)
            /\ v = r.w
            /\ op = Call("from", "-", k, ts, new, new, r)
            /\ u = new
            /\ words = <<>>
            /\ outF = <<>>
            /\ outB = <<>>
            /\ n = 0
            /\ pc = "run"

Step(name, tok, idx, sl, other, r) ==
    /\ pc = "run"
    /\ ~op.trap
    /\ n < MaxOps
    /\ v' = r.w
    /\ op' = Call(name, tok, idx, sl, other, v, r)
    /\ n' = n + 1
    /\ UNCHANGED <<u, ts, words, outF, outB, pc>>

DoPush == \E t \in Token : Step("push", t, 0, <<>>, new, push(v, t))

DoPop == Step("pop", "-", 0, <<>>, new, pop(v))

DoPushFront == \E t \in Token : Step("push_front", t, 0, <<>>, new, push_front(v, t))

DoPopFront == Step("pop_front", "-", 0, <<>>, new, pop_front(v))

DoGet == \E i \in Indices(v) : Step("get", "-", i, <<>>, new, get(v, i))

DoSet == \E i \in Indices(v), t \in Token : Step("set", t, i, <<>>, new, set(v, i, t))

DoAppend == \E s \in Slices : Step("append", "-", 0, s, new, append(v, s))

DoAppendFront == \E s \in Slices : Step("append_front", "-", 0, s, new, append_front(v, s))

DoAppendBits == \E b \in BitSlices : Step("append_bits", "-", 0, b, new, append_bits(v, b))

DoAppendBitsFront ==
    \E b \in BitSlices : Step("append_bits_front", "-", 0, b, new, append_bits_front(v, b))

DoConcat == \E o \in Others : Step("concat", "-", 0, <<>>, o, concat(v, o))

DoEq == \E o \in Others : Step("eq", "-", 0, <<>>, o, eq(v, o))

Next ==
    \/ DoPush
    \/ DoPop
    \/ DoPushFront
    \/ DoPopFront
    \/ DoGet
    \/ DoSet
    \/ DoAppend
    \/ DoAppendFront
    \/ DoAppendBits
    \/ DoAppendBitsFront
    \/ DoConcat
    \/ DoEq

Spec == Init /\ [][Next]_vars

TypeOK ==
    /\ v \in Word
    /\ op.trap \in BOOLEAN
    /\ n \in 0..MaxOps

(***************************************************************************)
(* Properties of the public API, checked under Spec.                       *)
(***************************************************************************)
\* the last call was made within the capacity contract of a well-formed run
Fits(k) == len(op.pre) <= capacity /\ len(op.pre) + k <= capacity

\* C1: two runs with the same len() and the same token at every index compare
\* equal with ==, whatever bits earlier pops left above the occupied region.
C1_EqIgnoresStaleBits ==
    (op.name = "eq" /\ len(op.pre) = len(op.other)
        /\ Contents(op.pre) = Contents(op.other))
    => (~op.trap /\ op.ret = "true")

\* C4: push and push_front on a full run, and append, append_front and concat
\* whose added length does not fit, trap and leave the word as it was.
C4_OverCapacityTraps ==
    /\ (op.name \in {"push", "push_front"} /\ len(op.pre) + 1 > capacity)
        => (op.trap /\ v = op.pre)
    /\ (op.name \in {"append", "append_front"} /\ len(op.pre) + Len(op.sl) > capacity)
        => (op.trap /\ v = op.pre)
    /\ (op.name = "concat" /\ len(op.pre) + len(op.other) > capacity)
        => (op.trap /\ v = op.pre)

C4_Witness ==
    /\ op.name = "concat"
    /\ len(op.pre) = capacity - 1
    /\ len(op.other) = 2
    /\ op.trap

\* C5: every run the safe API returns without trapping has len() <= capacity;
\* building one from more than 29 tokens is rejected.
C5_LenWithinCapacity == ~op.trap => len(v) <= capacity

\* C6: append_front(s) on a run with contents c, |c| + |s| <= 29, leaves the
\* run with length |c| + |s| and contents s followed by c.
C6_AppendFrontContents ==
    (op.name = "append_front" /\ Fits(Len(op.sl)))
    => /\ ~op.trap
       /\ len(v) = len(op.pre) + Len(op.sl)
       /\ Contents(v) = op.sl \o Contents(op.pre)

\* C7: append(s) of a non-empty slice and concat(o) of a non-empty run, within
\* capacity, leave contents c followed by s (by the contents of o), with length
\* the sum of the lengths.
C7_AppendConcatContents ==
    /\ (op.name = "append" /\ op.sl # <<>> /\ Fits(Len(op.sl)))
        => /\ ~op.trap
           /\ len(v) = len(op.pre) + Len(op.sl)
           /\ Contents(v) = Contents(op.pre) \o op.sl
    /\ (op.name = "concat" /\ len(op.other) > 0 /\ Fits(len(op.other)))
        => /\ ~op.trap
           /\ len(v) = len(op.pre) + len(op.other)
           /\ Contents(v) = Contents(op.pre) \o Contents(op.other)

\* C9: pop and pop_front on an empty run, and get and set at an index >= len(),
\* trap and leave the word (its length field included) as it was.
C9_UnderflowTraps ==
    /\ (op.name \in {"pop", "pop_front"} /\ len(op.pre) = 0)
        => (op.trap /\ v = op.pre)
    /\ (op.name \in {"get", "set"} /\ op.idx >= len(op.pre))
        => (op.trap /\ v = op.pre)

C9_Witness ==
    /\ op.name = "pop"
    /\ len(op.pre) = 0
    /\ op.pre # new
    /\ op.trap

\* the tokens of a bit slice, in bit order
BitTokens(bs) == [i \in 1..Len(bs) |-> BitToken(bs[i])]

\* C15: append(&[]) and concat(&empty run) on a run of length 0..29 complete
\* without trapping and leave len() and every token unchanged.
C15_EmptyBulkNoOp ==
    ((op.name = "append" /\ op.sl = <<>>) \/ (op.name = "concat" /\ len(op.other) = 0))
    /\ len(op.pre) <= capacity
    => /\ ~op.trap
       /\ len(v) = len(op.pre)
       /\ Contents(v) = Contents(op.pre)

\* C16: append_bits_front(b) on a run with contents c, |c| + |b| <= 29, leaves
\* the tokens of b[0], b[1], ..., in that order, followed by c.
C16_AppendBitsFrontOrder ==
    (op.name = "append_bits_front" /\ Fits(Len(op.sl)))
    => /\ ~op.trap
       /\ Contents(v) = BitTokens(op.sl) \o Contents(op.pre)

\* what append_bits_front does: the tokens of b end up in reverse bit order
AppendBitsFrontReversed ==
    (op.name = "append_bits_front" /\ Fits(Len(op.sl)))
    => /\ ~op.trap
       /\ Contents(v) = [i \in 1..Len(op.sl) |-> BitToken(op.sl[Len(op.sl) + 1 - i])]
                            \o Contents(op.pre)

\* append_bits does agree with appending the mapped tokens in bit order
AppendBitsOrder ==
    (op.name = "append_bits" /\ Fits(Len(op.sl)))
    => /\ ~op.trap
       /\ Contents(v) = Contents(op.pre) \o BitTokens(op.sl)

\* C19: if a == b returns true then len(a) = len(b) and a.get(i) = b.get(i)
\* for every i < len(a).
C19_EqSound ==
    (op.name = "eq" /\ ~op.trap /\ op.ret = "true"
        /\ len(op.pre) <= capacity /\ len(op.other) <= capacity)
    => /\ len(op.pre) = len(op.other)
       /\ Contents(op.pre) = Contents(op.other)

\* C20: on a run of length n <= 29, set(i, t) with i < n changes get(i) to t and
\* nothing else; push(t) with n < 29 makes len() n + 1 and get(n) t, stale
\* bits in the slot or not, and keeps the rest; pop() after push(t), and
\* pop_front() after push_front(t), return t and restore the contents.
C20_SingleElementWrites ==
    /\ (op.name = "set" /\ op.idx < len(op.pre) /\ len(op.pre) <= capacity)
        => /\ ~op.trap
           /\ len(v) = len(op.pre)
           /\ Contents(v) = [Contents(op.pre) EXCEPT ![op.idx + 1] = op.tok]
    /\ (op.name = "push" /\ len(op.pre) < capacity)
        => /\ ~op.trap
           /\ len(v) = len(op.pre) + 1
           /\ Contents(v) = Contents(op.pre) \o <<op.tok>>
           /\ ~pop(v).trap
           /\ pop(v).ret = op.tok
           /\ Contents(pop(v).w) = Contents(op.pre)
    /\ (op.name = "push_front" /\ len(op.pre) < capacity)
        => /\ ~op.trap
           /\ ~pop_front(v).trap
           /\ pop_front(v).ret = op.tok
           /\ Contents(pop_front(v).w) = Contents(op.pre)

\* a push into a slot that held the stale code of a popped token
C20_Witness ==
    /\ op.name = "push"
    /\ ~op.trap
    /\ len(op.pre) = 2
    /\ Contents(op.pre) = <<"S", "T">>
    /\ get_unchecked(op.pre, 2).ret = "L"
    /\ op.tok = "S"
    /\ Contents(v) = <<"S", "T", "S">>

(***************************************************************************)
(* SpecIter: a run with contents ts is drained by any interleaving of      *)
(* next() and next_back().  outF and outB collect what each end returned,  *)
(* n counts the calls that returned None.                                  *)
(***************************************************************************)
\* lengths of the runs that are iterated
IterLens == 0..capacity

InitIter ==
    \E seed \in Seeds, l \in IterLens, k \in 0..MaxPops :
        LET r == PopN(From(Pattern(seed, l + k)), k)
        IN  /\ l + k <= capacity
            /\ ts = Pattern(seed, l)
            /\ v = r.w
            /\ op = Call("from", "-", k, Pattern(seed, l + k), new, new, r)
            /\ u = new
            /\ words = <<>>
            /\ outF = <<>>
            /\ outB = <<>>
            /\ n = 0
            /\ pc = IF k = 0 THEN "from" ELSE "popped"

Returned(r) == ~r.trap /\ r.ret # None

IterNext ==
    /\ pc \in {"from", "popped"}
    /\ ~op.trap
    /\ n < MaxNone
    /\ LET r == next(v)
       IN  /\ v' = r.w
           /\ op' = Call("next", "-", 0, <<>>, new, v, r)
           /\ outF' = IF Returned(r) THEN Append(outF, r.ret) ELSE outF
           /\ n' = IF Returned(r) \/ r.trap THEN n ELSE n + 1
    /\ UNCHANGED <<u, ts, words, outB, pc>>

IterNextBack ==
    /\ pc \in {"from", "popped"}
    /\ ~op.trap
    /\ n < MaxNone
    /\ LET r == next_back(v)
       IN  /\ v' = r.w
           /\ op' = Call("next_back", "-", 0, <<>>, new, v, r)
           /\ outB' = IF Returned(r) THEN Append(outB, r.ret) ELSE outB
           /\ n' = IF Returned(r) \/ r.trap THEN n ELSE n + 1
    /\ UNCHANGED <<u, ts, words, outF, pc>>

NextIter ==
    \/ IterNext
    \/ IterNextBack

SpecIter == InitIter /\ [][NextIter]_vars

\* C2: a run built by From(ts), |ts| <= 29, and drained by next() alone returns
\* the tokens of ts in order, then None after exactly |ts| of them.
C2_FromIterRoundTrip ==
    (pc = "from" /\ outB = <<>>)
    => /\ ~op.trap
       /\ Len(outF) <= Len(ts)
       /\ outF = SubSeq(ts, 1, Len(outF))
       /\ (op.name = "next" /\ op.ret = None) => outF = ts

C2_Witness ==
    /\ pc = "from"
    /\ outB = <<>>
    /\ op.name = "next"
    /\ op.ret = None
    /\ Len(ts) = capacity
    /\ outF = ts
    /\ ts[1] # ts[2]

\* C8: under any interleaving the k-th next() returns the k-th token from the
\* front and the k-th next_back() the k-th from the back; size_hint is exactly
\* the number of tokens not yet returned; None comes only when all |ts| tokens
\* were returned, and then on every call, without a trap.
C8_DoubleEndedDrain ==
    (pc \in {"from", "popped"})
    => /\ ~op.trap
       /\ Len(outF) + Len(outB) <= Len(ts)
       /\ \A k \in 1..Len(outF) : outF[k] = ts[k]
       /\ \A k \in 1..Len(outB) : outB[k] = ts[Len(ts) + 1 - k]
       /\ size_hint(v) = <<Len(ts) - Len(outF) - Len(outB), Len(ts) - Len(outF) - Len(outB)>>
       /\ (op.name \in {"next", "next_back"})
            => (op.ret = None <=> is_empty(op.pre))
       /\ (op.name \in {"next", "next_back"} /\ op.ret = None)
            => (Len(outF) + Len(outB) = Len(ts) /\ v = op.pre)

C8_Witness ==
    /\ pc = "popped"
    /\ Len(ts) = capacity - 1
    /\ Len(outF) > 2
    /\ Len(outB) > 2
    /\ ts[1] # ts[2]
    /\ op.name = "next_back"
    /\ op.ret = None
    /\ n = MaxNone

(***************************************************************************)
(* SpecSym: from new(), v is built by push of ts front to back and u by    *)
(* push_front of ts back to front; the two are then compared with ==.      *)
(***************************************************************************)
SymLens == 0..capacity

InitSym ==
    \E seed \in Seeds, l \in SymLens :
        /\ ts = Pattern(seed, l)
        /\ v = new
        /\ u = new
        /\ op = Call("new", "-", 0, <<>>, new, new, Ok(new, None))
        /\ words = <<>>
        /\ outF = <<>>
        /\ outB = <<>>
        /\ n = 0
        /\ pc = "sym"

SymPush ==
    /\ pc = "sym"
    /\ ~op.trap
    /\ n < Len(ts)
    /\ LET r == push(v, ts[n + 1])
           f == push_front(u, ts[Len(ts) - n])
       IN  /\ v' = r.w
           /\ u' = f.w
           /\ op' = Call("push", ts[n + 1], 0, <<>>, new, v, [r EXCEPT !.trap = r.trap \/ f.trap])
    /\ n' = n + 1
    /\ UNCHANGED <<ts, words, outF, outB, pc>>

SymEq ==
    /\ pc = "sym"
    /\ ~op.trap
    /\ n = Len(ts)
    /\ op.name # "eq"
    /\ op' = Call("eq", "-", 0, <<>>, u, v, eq(u, v))
    /\ UNCHANGED <<v, u, ts, words, outF, outB, n, pc>>

NextSym ==
    \/ SymPush
    \/ SymEq

SpecSym == InitSym /\ [][NextSym]_vars

\* C3: for every ts with |ts| <= 29, the run built by push_front over ts in
\* reverse order is == to the run built by push over ts in forward order.
C3_FrontBackSymmetry ==
    (pc = "sym" /\ op.name = "eq") => (~op.trap /\ op.ret = "true")

\* once all of ts is pushed the two runs are the same word, and == finds them
\* equal below capacity
SymSameWord ==
    /\ pc = "sym" => (~op.trap \/ op.name = "eq")
    /\ (pc = "sym" /\ op.name # "eq") => Contents(v) = SubSeq(ts, 1, n)
    /\ (pc = "sym" /\ op.name # "eq") => Contents(u) = SubSeq(ts, Len(ts) - n + 1, Len(ts))
    /\ (pc = "sym" /\ n = Len(ts)) => v = u
    /\ (pc = "sym" /\ op.name = "eq" /\ Len(ts) < capacity) => (~op.trap /\ op.ret = "true")

(***************************************************************************)
(* The bit codec as the tests of src/ws/tests.rs pin it down (its source   *)
(* file is not part of the sources at hand): with u8 words and Msb0 order, *)
(* the 102 tokens of TUTORIAL_TOKENS pack into the 19 bytes of             *)
(* TUTORIAL_BITS, which is the prefix code S -> 0, T -> 10, L -> 11 with   *)
(* the last byte filled up with 0 bits, and those bytes unpack into the    *)
(* same 102 tokens, so unpacking drops the fill of the last byte.          *)
(***************************************************************************)
ByteBits == 8

Code(tok) == CASE tok = "S" -> <<0>> [] tok = "T" -> <<1, 0>> [] tok = "L" -> <<1, 1>>

\* the codes of toks[lo..hi], one after the other
RECURSIVE EncodeRange(_, _, _)
EncodeRange(toks, lo, hi) ==
    IF lo > hi THEN <<>>
    ELSE IF lo = hi THEN Code(toks[lo])
    ELSE LET mid == (lo + hi) \div 2
         IN  EncodeRange(toks, lo, mid) \o EncodeRange(toks, mid + 1, hi)

Encode(toks) == EncodeRange(toks, 1, Len(toks))

\* bs filled with 0 bits up to a whole number of words
Padded(bs) == bs \o [i \in 1..((ByteBits - (Len(bs) % ByteBits)) % ByteBits) |-> 0]

\* the Msb0 u8 whose bits are bs[from .. from + 7]
RECURSIVE ByteAt(_, _, _)
ByteAt(bs, from, k) ==
    IF k = ByteBits THEN 0 ELSE bs[from + k] * Pow2(ByteBits - 1 - k) + ByteAt(bs, from, k + 1)

\* a pack that writes every token as two bits (S 00, T 01, L 10), the last
\* word filled with the unused pattern 11
bit_pack_fixed2(toks) ==
    LET cs == [i \in 1..(2 * Len(toks)) |->
                  IF i % 2 = 1 THEN Repr(toks[(i + 1) \div 2]) \div 2
                  ELSE Repr(toks[i \div 2]) % 2]
        bs == cs \o [i \in 1..((ByteBits - (Len(cs) % ByteBits)) % ByteBits) |-> 1]
    IN  [j \in 1..(Len(bs) \div ByteBits) |-> ByteAt(bs, (j - 1) * ByteBits + 1, 0)]

bit_pack_padded(toks) ==
    LET bs == Padded(Encode(toks))
    IN  [j \in 1..(Len(bs) \div ByteBits) |-> ByteAt(bs, (j - 1) * ByteBits + 1, 0)]

\* the bits of a sequence of Msb0 u8 words
Unpacked(ws) ==
    [i \in 1..(Len(ws) * ByteBits) |->
        (ws[((i - 1) \div ByteBits) + 1] \div Pow2(ByteBits - 1 - ((i - 1) % ByteBits))) % 2]

\* bs without the 0 bits that end its last word
RECURSIVE Trimmed(_)
Trimmed(bs) ==
    IF bs = <<>> \/ bs[Len(bs)] = 1 THEN bs
    ELSE IF Len(bs) % ByteBits = 1 THEN SubSeq(bs, 1, Len(bs) - 1)
    ELSE Trimmed(SubSeq(bs, 1, Len(bs) - 1))

\* Reading bs[lo..hi] front to back, starting inside a code (half = 1: its first
\* bit, a 1, was just read) or between codes (half = 0): the tokens read, and
\* where the reading ends.
RECURSIVE DecodeRange(_, _, _, _)
DecodeRange(bs, lo, hi, half) ==
    IF lo > hi THEN [out |-> <<>>, half |-> half]
    ELSE IF lo = hi THEN
        IF half = 1 THEN [out |-> IF bs[lo] = 0 THEN <<"T">> ELSE <<"L">>, half |-> 0]
        ELSE IF bs[lo] = 0 THEN [out |-> <<"S">>, half |-> 0]
        ELSE [out |-> <<>>, half |-> 1]
    ELSE LET mid == (lo + hi) \div 2
             a == DecodeRange(bs, lo, mid, half)
             b == DecodeRange(bs, mid + 1, hi, a.half)
         IN  [out |-> a.out \o b.out, half |-> b.half]

\* a final 1 whose second bit was trimmed with the fill reads as T
Decode(bs) ==
    LET d == DecodeRange(bs, 1, Len(bs), 0)
    IN  IF d.half = 1 THEN d.out \o <<"T">> ELSE d.out

bit_unpack_padded(ws) == Decode(Trimmed(Unpacked(ws)))

TUTORIAL_TOKENS ==
    << "S","S","S","T","L","L","S","S","S","T","S","S","S","S","T","T","L","S","L","S","T","L","S","T","S","S","S","T","S","T","S","L",
       "T","L","S","S","S","S","S","T","L","T","S","S","S","S","L","S","S","S","S","T","S","T","T","L","T","S","S","T","L","T","S","S",
       "T","S","S","S","T","S","T","L","L","S","L","S","T","S","S","S","S","T","T","L","L","S","S","S","T","S","S","S","T","S","T","L",
       "S","L","L","L","L","L" >>

TUTORIAL_BITS ==
    << 23, 136, 43, 107, 66, 78, 193, 112,
       97, 43, 139, 136, 75, 218, 10, 241,
       9, 111, 252 >>

(***************************************************************************)
(* SpecCodec: a token sequence is packed, and the words are unpacked.      *)
(***************************************************************************)
PackInputs == Seqs(0, MaxPackLen) \cup {TUTORIAL_TOKENS}

InitCodec ==
    \E toks \in PackInputs :
        /\ ts = toks
        /\ v = new
        /\ u = new
        /\ op = Call("tokens", "-", 0, <<>>, new, new, Ok(new, None))
        /\ words = <<>>
        /\ outF = <<>>
        /\ outB = <<>>
        /\ n = 0
        /\ pc = "codec"

Pack ==
    /\ pc = "codec"
    /\ op.name = "tokens"
    /\ words' = bit_pack_padded(ts)
    /\ op' = [op EXCEPT !.name = "pack"]
    /\ UNCHANGED <<v, u, ts, outF, outB, n, pc>>

Unpack ==
    /\ pc = "codec"
    /\ op.name = "pack"
    /\ outF' = bit_unpack_padded(words)
    /\ op' = [op EXCEPT !.name = "unpack"]
    /\ UNCHANGED <<v, u, ts, words, outB, n, pc>>

NextCodec ==
    \/ Pack
    \/ Unpack

SpecCodec == InitCodec /\ [][NextCodec]_vars

\* the tests bit_pack and bit_unpack of src/ws/tests.rs
TestBitPack == (ts = TUTORIAL_TOKENS /\ op.name \in {"pack", "unpack"}) => words = TUTORIAL_BITS

TestBitUnpack == (ts = TUTORIAL_TOKENS /\ op.name = "unpack") => outF = TUTORIAL_TOKENS

\* C10: unpack(pack(ts)) = ts for every token sequence ts, those ending in S
\* and those whose packed form fills the last word included.
C10_PackRoundTrip == (pc = "codec" /\ op.name = "unpack") => outF = ts

\* what does hold: the round trip of every ts that does not end in S
PackRoundTripNoFinalS ==
    (pc = "codec" /\ op.name = "unpack" /\ (ts = <<>> \/ ts[Len(ts)] # "S")) => outF = ts

\* number of bits of the packed form of toks: one per S, two per T or L
CodeBits(toks) ==
    Cardinality({i \in 1..Len(toks) : toks[i] = "S"})
        + 2 * Cardinality({i \in 1..Len(toks) : toks[i] # "S"})

MaxSrc == 3

STL_char(c) == CASE c = 83 -> "S" [] c = 84 -> "T" [] c = 76 -> "L" [] OTHER -> None

STL_u8(b) == CASE b = 83 -> "S" [] b = 84 -> "T" [] b = 76 -> "L" [] OTHER -> None

\* the lexers: new_utf8(src, STL, true), new_utf8(src, STL, false), new_bytes(src, STL)
LexKinds == {"utf8", "utf8_strict", "bytes"}

lookup(kind, sym) == IF kind = "bytes" THEN STL_u8(sym) ELSE STL_char(sym)

Lenient(kind) == kind \in {"utf8", "bytes"}

Least(S) == CHOOSE i \in S : \A j \in S : i <= j

\* one pull: the item, the offset of its symbol, the symbols read so far
LexItem(item, at, pos, closed) == [item |-> item, at |-> at, pos |-> pos, closed |-> closed]

\* a lexer that goes on reading after it has returned an error
MappingLexer_next_resync(kind, src, pos, closed) ==
    LET stop == {i \in (pos + 1)..Len(src) : Lenient(kind) => lookup(kind, src[i]) # None}
    IN  IF stop = {} THEN LexItem(None, Len(src), Len(src), TRUE)
        ELSE LET i == Least(stop)
             IN  IF lookup(kind, src[i]) = None
                 THEN LexItem("EncodingError", i - 1, i, TRUE)
                 ELSE LexItem(lookup(kind, src[i]), i - 1, i, FALSE)

MappingLexer_next(kind, src, pos, closed) ==
    IF closed THEN LexItem(None, pos, pos, TRUE)
    ELSE LET stop == {i \in (pos + 1)..Len(src) :
                         Lenient(kind) => lookup(kind, src[i]) # None}
         IN  IF stop = {} THEN LexItem(None, Len(src), Len(src), TRUE)
             ELSE LET i == Least(stop)
                  IN  IF lookup(kind, src[i]) = None
                      THEN LexItem("EncodingError", i - 1, i, TRUE)
                      ELSE LexItem(lookup(kind, src[i]), i - 1, i, FALSE)

\* Vec<Token>::into_iter().map(Ok)
VecLexer_next(src, pos) ==
    IF pos < Len(src) THEN LexItem(src[pos + 1], pos, pos + 1, FALSE)
    ELSE LexItem(None, pos, pos, TRUE)

Lexer_next(kind, src, pos, closed) ==
    IF kind \in {"vec", "bits"} THEN VecLexer_next(src, pos)
    ELSE MappingLexer_next(kind, src, pos, closed)

\* the letters S, T, L, a space and a lower-case letter
Alphabet == {83, 84, 76, 32, 120}

LexSources == UNION {[1..k -> Alphabet] : k \in 0..MaxSrc}

TUTORIAL_STL ==
    << 10, 83, 32, 83, 32, 83, 32, 84, 32, 76, 32, 32, 32, 32, 32, 32, 32, 32, 32, 32, 32, 32, 32, 32,
       32, 32, 32, 32, 32, 32, 112, 117, 115, 104, 32, 49, 10, 76, 32, 83, 32, 83, 32, 83, 32, 84, 32, 83,
       32, 83, 32, 83, 32, 83, 32, 84, 32, 84, 32, 76, 32, 32, 108, 97, 98, 101, 108, 95, 67, 58, 10, 83,
       32, 76, 32, 83, 32, 32, 32, 32, 32, 32, 32, 32, 32, 32, 32, 32, 32, 32, 32, 32, 32, 32, 32, 32,
       32, 32, 32, 32, 100, 117, 112, 10, 84, 32, 76, 32, 83, 32, 84, 32, 32, 32, 32, 32, 32, 32, 32, 32,
       32, 32, 32, 32, 32, 32, 32, 32, 32, 32, 32, 32, 32, 112, 114, 105, 110, 116, 105, 10, 83, 32, 83, 32,
       83, 32, 84, 32, 83, 32, 84, 32, 83, 32, 76, 32, 32, 32, 32, 32, 32, 32, 32, 32, 32, 32, 32, 32,
       32, 112, 117, 115, 104, 32, 49, 48, 10, 84, 32, 76, 32, 83, 32, 83, 32, 32, 32, 32, 32, 32, 32, 32,
       32, 32, 32, 32, 32, 32, 32, 32, 32, 32, 32, 32, 32, 32, 112, 114, 105, 110, 116, 99, 10, 83, 32, 83,
       32, 83, 32, 84, 32, 76, 32, 32, 32, 32, 32, 32, 32, 32, 32, 32, 32, 32, 32, 32, 32, 32, 32, 32,
       32, 32, 112, 117, 115, 104, 32, 49, 10, 84, 32, 83, 32, 83, 32, 83, 32, 32, 32, 32, 32, 32, 32, 32,
       32, 32, 32, 32, 32, 32, 32, 32, 32, 32, 32, 32, 32, 32, 97, 100, 100, 10, 83, 32, 76, 32, 83, 32,
       32, 32, 32, 32, 32, 32, 32, 32, 32, 32, 32, 32, 32, 32, 32, 32, 32, 32, 32, 32, 32, 32, 32, 100,
       117, 112, 10, 83, 32, 83, 32, 83, 32, 84, 32, 83, 32, 84, 32, 84, 32, 76, 32, 32, 32, 32, 32, 32,
       32, 32, 32, 32, 32, 32, 32, 32, 112, 117, 115, 104, 32, 49, 49, 10, 84, 32, 83, 32, 83, 32, 84, 32,
       32, 32, 32, 32, 32, 32, 32, 32, 32, 32, 32, 32, 32, 32, 32, 32, 32, 32, 32, 32, 32, 115, 117, 98,
       10, 76, 32, 84, 32, 83, 32, 83, 32, 84, 32, 83, 32, 83, 32, 83, 32, 84, 32, 83, 32, 84, 32, 76,
       32, 32, 32, 32, 32, 32, 106, 122, 32, 108, 97, 98, 101, 108, 95, 69, 10, 76, 32, 83, 32, 76, 32, 83,
       32, 84, 32, 83, 32, 83, 32, 83, 32, 83, 32, 84, 32, 84, 32, 76, 32, 32, 32, 32, 32, 32, 106, 109,
       112, 32, 108, 97, 98, 101, 108, 95, 67, 10, 76, 32, 83, 32, 83, 32, 83, 32, 84, 32, 83, 32, 83, 32,
       83, 32, 84, 32, 83, 32, 84, 32, 76, 32, 32, 108, 97, 98, 101, 108, 95, 69, 58, 10, 83, 32, 76, 32,
       76, 32, 32, 32, 32, 32, 32, 32, 32, 32, 32, 32, 32, 32, 32, 32, 32, 32, 32, 32, 32, 32, 32, 32,
       32, 100, 114, 111, 112, 10, 76, 32, 76, 32, 76, 32, 32, 32, 32, 32, 32, 32, 32, 32, 32, 32, 32, 32,
       32, 32, 32, 32, 32, 32, 32, 32, 32, 32, 32, 101, 110, 100, 10 >>

\* the state of a pipeline: lexer kind, status, whether the lexer is closed,
\* and the number of pulls made after the end
Pipe(kind, name, closed, idx) ==
    [name |-> name, tok |-> kind, idx |-> idx, sl |-> <<>>, other |-> new, pre |-> new,
     ret |-> IF closed THEN "closed" ELSE "open", trap |-> FALSE]

InitLex ==
    /\ \E kind \in LexKinds : op = Pipe(kind, "lexer", FALSE, 0)
    /\ words \in LexSources \cup {TUTORIAL_STL}
    /\ ts = <<>>
    /\ v = new
    /\ u = new
    /\ outF = <<>>
    /\ outB = <<>>
    /\ n = 0
    /\ pc = "lex"

LexNext ==
    /\ pc = "lex"
    /\ op.idx < MaxNone
    /\ LET r == MappingLexer_next(op.tok, words, n, op.ret = "closed")
       IN  /\ outF' = IF r.item = None THEN outF
                      ELSE Append(outF, [item |-> r.item, at |-> r.at])
           /\ n' = r.pos
           /\ op' = Pipe(op.tok, "lexer", r.closed,
                         IF op.ret = "closed" THEN op.idx + 1 ELSE op.idx)
    /\ UNCHANGED <<v, u, ts, words, outB, pc>>

NextLex == LexNext

SpecLex == InitLex /\ [][NextLex]_vars

\* the tokens of the symbols of s that have one, in order
MappedTokens(kind, s) ==
    LET m == SelectSeq(s, LAMBDA x : lookup(kind, x) # None)
    IN  [i \in 1..Len(m) |-> lookup(kind, m[i])]

Items(out) == [i \in 1..Len(out) |-> out[i].item]

\* the tests lex and byte_lex of src/ws/tests.rs
TestLex ==
    (pc = "lex" /\ words = TUTORIAL_STL /\ op.tok \in {"utf8", "bytes"} /\ op.ret = "closed")
    => Items(outF) = TUTORIAL_TOKENS

\* C13: a lenient lexer returns exactly the tokens of the mapped symbols, in
\* source order, and never an error; a strict lexer returns the tokens of the
\* mapped symbols before the first unmapped one, then one EncodingError with
\* that symbol's offset, then nothing more.
C13_LexerLeniency ==
    pc = "lex" =>
        LET bad == {i \in 1..Len(words) : lookup(op.tok, words[i]) = None}
        IN  IF Lenient(op.tok) \/ bad = {} \/ n < Least(bad)
            THEN /\ Items(outF) = MappedTokens(op.tok, SubSeq(words, 1, n))
                 /\ op.ret = "closed" => n = Len(words)
            ELSE /\ op.ret = "closed"
                 /\ n = Least(bad)
                 /\ Items(outF) = MappedTokens(op.tok, SubSeq(words, 1, n - 1))
                                      \o <<"EncodingError">>
                 /\ outF[Len(outF)].at = n - 1

\* a strict lexer pulled again after the error of an unmapped symbol that has
\* mapped symbols on both sides
C13_Witness ==
    /\ pc = "lex"
    /\ op.tok = "utf8_strict"
    /\ op.idx >= 1
    /\ words = <<83, 32, 84>>
    /\ Items(outF) = <<"S", "EncodingError">>
    /\ outF[2].at = 1

\* a lenient lexer at the end of the tutorial text
C13_WitnessLenient ==
    /\ pc = "lex"
    /\ op.tok = "utf8"
    /\ op.ret = "closed"
    /\ words = TUTORIAL_STL
    /\ Len(outF) = 102

(***************************************************************************)
(* SpecParse: PrefixParser::new(&*TABLE, lex) pulled to its end and        *)
(* MaxNone times more.  The lexer reads words (text, bytes) or ts (a       *)
(* Vec<Token>), n is the lexer's position, outF the items returned,        *)
(* op.name the parser's status, outB the program that was bit-packed.      *)
(***************************************************************************)

\* longest Token source handed to the parser, the tutorial program apart
MaxToks == 6

TABLE ==
    (<<"S", "S">> :> "Push") @@ (<<"S", "L", "S">> :> "Dup") @@ (<<"S", "L", "L">> :> "Drop")
    @@ (<<"T", "S", "S", "S">> :> "Add") @@ (<<"T", "S", "S", "T">> :> "Sub")
    @@ (<<"T", "L", "S", "S">> :> "Printc") @@ (<<"T", "L", "S", "T">> :> "Printi")
    @@ (<<"L", "S", "S">> :> "Label") @@ (<<"L", "S", "L">> :> "Jmp")
    @@ (<<"L", "T", "S">> :> "Jz") @@ (<<"L", "L", "L">> :> "End")

\* the tags followed by a bit-vector argument
HasArg(tag) == tag \in {"Push", "Label", "Jz", "Jmp"}

Inst(tag, arg) == [tag |-> tag, arg |-> arg]

NoInst == Inst("None", <<>>)

ErrorTags == {"EncodingError", "DecodeError"}

\* the bit of an argument token
ArgBit(tok) == IF tok = "T" THEN 1 ELSE 0

\* what one pull returns: the item, the lexer after it, the parser's status
ParseItem(item, r, status) ==
    [item |-> item, pos |-> r.pos, closed |-> r.closed, status |-> status]

\* a parser that ends quietly when the source runs out inside an instruction
Truncated_silent(r) == ParseItem(NoInst, r, "ended")

\* the source ran out inside an instruction
Truncated(r) == ParseItem(Inst("DecodeError", <<>>), r, "failed")

\* an argument with its terminator read as one more bit
EndArg_withTerminator(tag, arg, r) == ParseItem(Inst(tag, Append(arg, ArgBit("L"))), r, "ready")

\* the terminator of an argument has been read
EndArg(tag, arg, r) == ParseItem(Inst(tag, arg), r, "ready")

RECURSIVE ReadArg(_, _, _, _, _)
ReadArg(kind, src, pos, tag, arg) ==
    LET r == Lexer_next(kind, src, pos, FALSE)
    IN  CASE r.item = None -> Truncated(r)
          [] r.item = "EncodingError" -> ParseItem(Inst("EncodingError", <<>>), r, "failed")
          [] r.item = "L" -> EndArg(tag, arg, r)
          [] OTHER -> ReadArg(kind, src, r.pos, tag, Append(arg, ArgBit(r.item)))

RECURSIVE ReadPrefix(_, _, _, _, _)
ReadPrefix(kind, src, pos, closed, prefix) ==
    LET r == Lexer_next(kind, src, pos, closed)
    IN  CASE r.item = None ->
                IF prefix = <<>> THEN ParseItem(NoInst, r, "ended") ELSE Truncated(r)
          [] r.item = "EncodingError" -> ParseItem(Inst("EncodingError", <<>>), r, "failed")
          [] OTHER ->
                LET p == Append(prefix, r.item)
                IN  IF p \in DOMAIN TABLE
                    THEN IF HasArg(TABLE[p]) THEN ReadArg(kind, src, r.pos, TABLE[p], <<>>)
                         ELSE ParseItem(Inst(TABLE[p], <<>>), r, "ready")
                    ELSE ReadPrefix(kind, src, r.pos, FALSE, p)

\* a parser that goes on decoding after it has ended or failed
PrefixParser_next_resume(status, kind, src, pos, closed) ==
    ReadPrefix(kind, src, pos, closed, <<>>)

PrefixParser_next(status, kind, src, pos, closed) ==
    IF status # "ready"
    THEN [item |-> NoInst, pos |-> pos, closed |-> closed, status |-> status]
    ELSE ReadPrefix(kind, src, pos, closed, <<>>)

TUTORIAL_INSTS ==
    << Inst("Push", <<0, 1>>),
       Inst("Label", <<0, 1, 0, 0, 0, 0, 1, 1>>),
       Inst("Dup", <<>>),
       Inst("Printi", <<>>),
       Inst("Push", <<0, 1, 0, 1, 0>>),
       Inst("Printc", <<>>),
       Inst("Push", <<0, 1>>),
       Inst("Add", <<>>),
       Inst("Dup", <<>>),
       Inst("Push", <<0, 1, 0, 1, 1>>),
       Inst("Sub", <<>>),
       Inst("Jz", <<0, 1, 0, 0, 0, 1, 0, 1>>),
       Inst("Jmp", <<0, 1, 0, 0, 0, 0, 1, 1>>),
       Inst("Label", <<0, 1, 0, 0, 0, 1, 0, 1>>),
       Inst("Drop", <<>>),
       Inst("End", <<>>) >>

\* the source the lexer of the pipeline reads
Src == IF op.tok \in {"vec", "bits"} THEN ts ELSE words

InitParse ==
    /\ v = new
    /\ u = new
    /\ outF = <<>>
    /\ n = 0
    /\ pc = "parse"
    /\ \/ \E kind \in LexKinds :
            /\ op = Pipe(kind, "ready", FALSE, 0)
            /\ words \in LexSources \cup {TUTORIAL_STL}
            /\ ts = <<>>
            /\ outB = <<>>
       \/ /\ op = Pipe("vec", "ready", FALSE, 0)
          /\ ts \in Seqs(0, MaxToks)
          /\ words = <<>>
          /\ outB = <<>>
       \/ \E prog \in Seqs(0, MaxToks) \cup {TUTORIAL_TOKENS} :
            /\ op = Pipe("bits", "ready", FALSE, 0)
            /\ words = bit_pack_padded(prog)
            /\ ts = bit_unpack_padded(bit_pack_padded(prog))
            /\ outB = prog

ParseNext ==
    /\ pc = "parse"
    /\ op.idx < MaxNone
    /\ LET r == PrefixParser_next(op.name, op.tok, Src, n, op.ret = "closed")
       IN  /\ outF' = IF r.item = NoInst THEN outF ELSE Append(outF, r.item)
           /\ n' = r.pos
           /\ op' = Pipe(op.tok, r.status, r.closed,
                         IF op.name # "ready" THEN op.idx + 1 ELSE op.idx)
    /\ UNCHANGED <<v, u, ts, words, outB, pc>>

NextParse == ParseNext

SpecParse == InitParse /\ [][NextParse]_vars

\* longest Token source of the runs checked for termination
MaxLive == 4

\* the consumer pulls until the parser returns None (collect)
InitParseFair ==
    /\ InitParse
    /\ op.tok = "vec"
    /\ Len(ts) <= MaxLive

SpecParseFair == InitParseFair /\ [][NextParse]_vars /\ WF_vars(NextParse)

Terminal == op.name \in {"ended", "failed"}

\* the tests parse and parse_dyn of src/ws/tests.rs
TestParse ==
    (pc = "parse" /\ Terminal
        /\ \/ op.tok \in {"utf8", "bytes"} /\ words = TUTORIAL_STL
           \/ op.tok = "bits" /\ words = TUTORIAL_BITS)
    => outF = TUTORIAL_INSTS

\* the Token sequence of the source: what a lenient lexer returns, or a strict
\* one before its error
SourceTokens ==
    IF op.tok \in {"vec", "bits"} THEN ts
    ELSE LET bad == {i \in 1..Len(words) : lookup(op.tok, words[i]) = None}
         IN  IF Lenient(op.tok) \/ bad = {} THEN MappedTokens(op.tok, words)
             ELSE MappedTokens(op.tok, SubSeq(words, 1, Least(bad) - 1))

\* the number of tokens the lexer has returned
Taken == IF op.tok \in {"vec", "bits"} THEN n ELSE Len(MappedTokens(op.tok, SubSeq(words, 1, n)))

\* the strict lexer has run into its unmapped symbol
LexerFailed ==
    /\ op.tok \in LexKinds
    /\ ~Lenient(op.tok)
    /\ \E i \in 1..n : lookup(op.tok, words[i]) = None

\* the tokens an instruction is written as
Encoded(inst) ==
    (CHOOSE p \in DOMAIN TABLE : TABLE[p] = inst.tag)
        \o (IF HasArg(inst.tag)
            THEN [i \in 1..Len(inst.arg) |-> IF inst.arg[i] = 1 THEN "T" ELSE "S"] \o <<"L">>
            ELSE <<>>)

RECURSIVE EncodedAll(_)
EncodedAll(insts) ==
    IF insts = <<>> THEN <<>> ELSE Encoded(Head(insts)) \o EncodedAll(Tail(insts))

IsPrefix(p, t) == Len(p) <= Len(t) /\ SubSeq(t, 1, Len(p)) = p

\* t begins with a whole instruction
StartsWithInst(t) ==
    \E p \in DOMAIN TABLE :
        /\ IsPrefix(p, t)
        /\ HasArg(TABLE[p]) => \E j \in (Len(p) + 1)..Len(t) : t[j] = "L"

\* the instructions of a Token sequence, decoded from a Vec<Token>
RECURSIVE DecodeFrom(_, _, _)
DecodeFrom(status, toks, pos) ==
    LET r == PrefixParser_next(status, "vec", toks, pos, FALSE)
    IN  IF r.item = NoInst THEN <<>> ELSE <<r.item>> \o DecodeFrom(r.status, toks, r.pos)

DecodeAll(toks) == DecodeFrom("ready", toks, 0)

\* C11: the instructions decoded from a program do not depend on its encoding:
\* the lenient text lexer, the byte lexer and the unpacked bit-packed form of
\* the program all decode to the same sequence (the tutorial program to the
\* sixteen instructions of get_tutorial_insts).
C11_CrossEncoding ==
    (pc = "parse" /\ Terminal /\ op.tok \in {"utf8", "bytes", "bits"})
    => /\ outF = DecodeAll(IF op.tok = "bits" THEN outB ELSE MappedTokens("utf8", words))
       /\ (words = TUTORIAL_STL \/ outB = TUTORIAL_TOKENS) => outF = TUTORIAL_INSTS

\* what does hold: the text and the byte lexer decode alike, and so does the
\* bit-packed form of a program that does not end in S
CrossEncodingNoFinalS ==
    (pc = "parse" /\ Terminal /\ op.tok \in {"utf8", "bytes", "bits"}
        /\ (op.tok = "bits" => (outB = <<>> \/ outB[Len(outB)] # "S")))
    => outF = DecodeAll(IF op.tok = "bits" THEN outB ELSE MappedTokens("utf8", words))

\* C12: an error is returned once, as the last item: after it every pull
\* returns None, and the items before it are the whole instructions that
\* precede the failed one, of which nothing is returned.
C12_ErrorsTerminal ==
    pc = "parse" =>
        /\ \A i \in 1..Len(outF) : outF[i].tag \in ErrorTags => i = Len(outF)
        /\ op.name = "failed" <=> (outF # <<>> /\ outF[Len(outF)].tag \in ErrorTags)
        /\ op.name = "failed" =>
            LET done == EncodedAll(SubSeq(outF, 1, Len(outF) - 1))
            IN  /\ IsPrefix(done, SourceTokens)
                /\ ~StartsWithInst(SubSeq(SourceTokens, Len(done) + 1, Len(SourceTokens)))
                /\ outF[Len(outF)].tag = (IF LexerFailed THEN "EncodingError" ELSE "DecodeError")

\* a parser pulled again after the error that followed a whole instruction
C12_Witness ==
    /\ pc = "parse"
    /\ op.name = "failed"
    /\ op.idx >= 1
    /\ op.tok = "vec"
    /\ ts = <<"S", "L", "S", "S", "S", "T">>
    /\ outF = <<Inst("Dup", <<>>), Inst("DecodeError", <<>>)>>

\* the same under a strict lexer
C12_WitnessEncoding ==
    /\ pc = "parse"
    /\ op.name = "failed"
    /\ op.idx >= 1
    /\ op.tok = "utf8_strict"
    /\ words = <<83, 120, 83>>
    /\ outF = <<Inst("EncodingError", <<>>)>>

\* C14: the parser comes to an end on every source: it either ends after whole
\* instructions that cover every token, or fails with an error as its last
\* item; a prefix that matches no entry and an argument without terminator
\* fail when the source runs out.
C14_DecoderTerminates ==
    (pc = "parse") ~>
        /\ Terminal
        /\ op.name = "ended" => EncodedAll(outF) = SourceTokens
        /\ op.name = "failed" => outF[Len(outF)].tag \in ErrorTags

\* every pull of a parser that has not ended reads at least one token or ends it
DecoderProgress == [][(pc = "parse" /\ op.name = "ready") => (Terminal' \/ n' > n)]_vars

\* an argument whose terminator never comes, and a prefix that matches nothing
C14_Witness ==
    /\ pc = "parse"
    /\ op.name = "failed"
    /\ op.tok = "vec"
    /\ ts \in {<<"S", "S", "T", "S">>, <<"S", "T", "T", "L">>}
    /\ n = Len(ts)
    /\ outF = <<Inst("DecodeError", <<>>)>>

\* C17: the argument of Push, Label, Jz, Jmp is the tokens after the prefix up
\* to the first L, S as 0 and T as 1, in order; the L is read and the next
\* prefix starts after it; every token is read once, in order: the items
\* returned, written back as tokens, are the tokens read so far.
C17_ArgumentAndConsumption ==
    (pc = "parse" /\ op.name \in {"ready", "ended"})
    => /\ EncodedAll(outF) = SubSeq(SourceTokens, 1, Taken)
       /\ \A i \in 1..Len(outF) :
            /\ outF[i].tag \in {TABLE[p] : p \in DOMAIN TABLE}
            /\ \A j \in 1..Len(outF[i].arg) : outF[i].arg[j] \in {0, 1}
            /\ ~HasArg(outF[i].tag) => outF[i].arg = <<>>
       /\ op.name = "ended" => Taken = Len(SourceTokens)

\* the tutorial program, from its text: Push 01, then the Label after its L
C17_Witness ==
    /\ pc = "parse"
    /\ op.name = "ended"
    /\ op.tok = "utf8"
    /\ words = TUTORIAL_STL
    /\ Taken = 102
    /\ Len(outF) = 16
    /\ outF[1] = Inst("Push", <<0, 1>>)
    /\ outF[2] = Inst("Label", <<0, 1, 0, 0, 0, 0, 1, 1>>)

====
